---- MODULE Spec2Model ----
(***************************************************************************)
(* The node canvas of [deep]frame (ProfessionalNodeCanvas): the React      *)
(* state object CanvasState, its event handlers, and the closures that the *)
(* window/canvas listeners registered by useEffect hold.                   *)
(*                                                                         *)
(* Numbers.  JavaScript numbers are modelled as exact rationals            *)
(* [n |-> numerator, d |-> denominator > 0] in lowest terms, so that the   *)
(* arithmetic identities of the handlers are checked and not assumed.      *)
(* Rounding of IEEE doubles is not modelled.                               *)
(*                                                                         *)
(* Components.  ProfessionalNodeCanvas, TerminalLanding and                *)
(* SimpleLiminalBoard are separate components with separate state; each    *)
(* specification below drives one of them and leaves the others as         *)
(* constructed.  Of a chat message the model keeps role and content, of a  *)
(* ConsciousnessEvent type and confidence; of a                            *)
(* pod id, type, x, y, width, height and isEditing (undefined is FALSE).   *)
(*                                                                         *)
(* Identifiers.  The id `node-<k>` is modelled by the integer k; Date.now()*)
(* is the variable now.                                                    *)
(*                                                                         *)
(* Nodes.  Of a node the model keeps id, type, position, size, selected,   *)
(* isEditing (undefined is FALSE) and the ids of its ports.  Title,        *)
(* description, data, status and url are written only by addNode,          *)
(* updateNodeUrl and the dream journal handlers and are read by none of    *)
(* the handlers modelled here.                                             *)
(* The port id `in-<k>` / `out-<k>` is modelled by [kind, n |-> k].        *)
(***************************************************************************)
EXTENDS Integers, Sequences, FiniteSets, TLC

VARIABLES
    nodes,          \* CanvasState.nodes
    connections,    \* CanvasState.connections
    selectedTool,   \* CanvasState.selectedTool
    zoom,           \* CanvasState.zoom
    pan,            \* CanvasState.pan
    selectedNodes,  \* CanvasState.selectedNodes
    dragState,      \* CanvasState.dragState
    listener,       \* the state captured by the registered handleMouseMove / handleWheel closures
    now,            \* Date.now()
    events,         \* number of input events handled so far (bounds the exploration)
    messages,       \* TerminalLanding: messages
    input,          \* TerminalLanding: input
    isTyping,       \* TerminalLanding: isTyping
    typingDelays,   \* TerminalLanding: typingDelays
    socket,         \* TerminalLanding: socket
    emitted,        \* TerminalLanding: the user_message events emitted on the socket
    detectorEvents, \* ConsciousnessDetector: events
    pods,           \* SimpleLiminalBoard: pods
    podTool,        \* SimpleLiminalBoard: selectedTool
    timeScale       \* SimulationManager: timeScale

canvasVars == <<nodes, connections, selectedTool, zoom, pan, selectedNodes, dragState>>
terminalVars == <<messages, input, isTyping, typingDelays, socket, emitted, detectorEvents>>
\* the state of the components other than the canvas
boardVars == <<pods, podTool>>
\* the state of the components other than the canvas
outsideCanvas == <<terminalVars, boardVars, timeScale>>
vars == <<nodes, connections, selectedTool, zoom, pan, selectedNodes, dragState,
          listener, now, events, messages, input, isTyping, typingDelays, socket, emitted,
          detectorEvents, pods, podTool, timeScale>>

----------------------------------------------------------------------------
(* Bounds of the exploration *)

MaxEvents == 3
MaxWheel == 5
MaxDrag == 4
MaxClock == 1
MaxChat == 6
MaxBoard == 4
MaxSelect == 4
MaxSim == 5

----------------------------------------------------------------------------
(* Exact rational arithmetic *)

Abs(i) == IF i < 0 THEN -i ELSE i

RECURSIVE GCD(_, _)
GCD(a, b) == IF b = 0 THEN a ELSE GCD(b, a % b)

Norm(n, d) ==
    IF n = 0 THEN [n |-> 0, d |-> 1]
    ELSE LET g == GCD(Abs(n), Abs(d))
             s == IF d < 0 THEN -1 ELSE 1
         IN  [n |-> s * (n \div g), d |-> s * (d \div g)]

R(i) == [n |-> i, d |-> 1]

RAdd(a, b) ==
    LET g == GCD(a.d, b.d)
    IN  Norm(a.n * (b.d \div g) + b.n * (a.d \div g), (a.d \div g) * b.d)

RNeg(a) == [n |-> -a.n, d |-> a.d]

RSub(a, b) == RAdd(a, RNeg(b))

RMul(a, b) ==
    IF a.n = 0 \/ b.n = 0 THEN R(0)
    ELSE LET g1 == GCD(Abs(a.n), b.d)
             g2 == GCD(Abs(b.n), a.d)
         IN  Norm((a.n \div g1) * (b.n \div g2), (a.d \div g2) * (b.d \div g1))

RInv(a) == Norm(a.d, a.n)

RDiv(a, b) == RMul(a, RInv(b))

RLess(a, b) ==
    LET g == GCD(a.d, b.d)
    IN  a.n * (b.d \div g) < b.n * (a.d \div g)

RLeq(a, b) == ~RLess(b, a)

\* Math.max / Math.min
RMax(a, b) == IF RLess(a, b) THEN b ELSE a
RMin(a, b) == IF RLess(b, a) THEN b ELSE a

Quarter == [n |-> 1, d |-> 4]

\* points { x, y }
Pt(x, y) == [x |-> x, y |-> y]
PAdd(p, q) == Pt(RAdd(p.x, q.x), RAdd(p.y, q.y))
PSub(p, q) == Pt(RSub(p.x, q.x), RSub(p.y, q.y))
PScale(p, k) == Pt(RMul(p.x, k), RMul(p.y, k))
PDiv(p, k) == Pt(RDiv(p.x, k), RDiv(p.y, k))

----------------------------------------------------------------------------
(* Inputs of the events *)

\* pointer positions (clientX, clientY) of the events
Points == {Pt(R(0), R(0)), Pt(R(30), R(20))}

\* WheelEvent.deltaY
DeltaYs == {-100, 100}

\* MouseEvent.button: 0 is the left button
Buttons == {0, 2}

\* KeyboardEvent.key
Keys == {"Delete", "Backspace", "Escape", "a"}

\* the toolbar's tools
Tools == {"select", "web"}

\* canvas.getBoundingClientRect(): the canvas fills the window
RectLeft == 0
RectTop == 0

\* Date.now() at construction
Clock0 == 100

----------------------------------------------------------------------------
(* TerminalLanding: the state after construction *)

\* a Message
Message(role, content) == [role |-> role, content |-> content]

\* the content of the system message the terminal opens with
Welcome == << "w" >>

InitialMessages == << Message("system", Welcome) >>

TerminalInit ==
    /\ messages = InitialMessages
    /\ input = << >>
    /\ isTyping = FALSE
    /\ typingDelays = << >>
    /\ socket = "null"
    /\ emitted = << >>
    /\ detectorEvents = << >>

----------------------------------------------------------------------------
(* SimulationManager: the state after construction *)

SimulationInit == timeScale = R(1)

----------------------------------------------------------------------------
(* SimpleLiminalBoard: the state after construction *)

SeedPod(id, type, x, y, width, height) ==
    [id |-> id, type |-> type, x |-> x, y |-> y,
     width |-> width, height |-> height, isEditing |-> FALSE]

InitialPods ==
    << SeedPod(1, "TEXT", 200, 200, 300, 150),
       SeedPod(2, "CONSCIOUSNESS", 600, 300, 250, 120),
       SeedPod(3, "WEB", 50, 400, 400, 300),
       SeedPod(4, "TEXT", 500, 400, 300, 200) >>

BoardInit ==
    /\ pods = InitialPods
    /\ podTool = "move"

----------------------------------------------------------------------------
(* Initial state *)

\* NodePort.id
Port(kind, k) == [kind |-> kind, n |-> k]

SeedNode(id, type, x, y, w, h, ports) ==
    [id |-> id, type |-> type, position |-> Pt(R(x), R(y)),
     size |-> [width |-> w, height |-> h], selected |-> FALSE, ports |-> ports,
     isEditing |-> FALSE]

InitialNodes ==
    << SeedNode(1, "input", 100, 200, 240, 160, << Port("out", 1) >>),
       SeedNode(2, "processor", 450, 150, 280, 200, << Port("in", 1), Port("out", 1) >>),
       SeedNode(3, "web", 100, 450, 400, 300, << Port("out", 1) >>),
       SeedNode(4, "dream_journal", 550, 450, 400, 350, << Port("in", 2), Port("out", 2) >>) >>

\* a NodeConnection
Connection(id, fromNode, fromPort, toNode, toPort) ==
    [id |-> id, from |-> [nodeId |-> fromNode, portId |-> fromPort],
     to |-> [nodeId |-> toNode, portId |-> toPort]]

\* InitialConnections with an edge seeded between node-1 and node-2
InitialConnectionsSeeded == << Connection(1, 1, Port("out", 1), 2, Port("in", 1)) >>

InitialConnections == << >>

InitialDragState ==
    [isDragging |-> FALSE, dragType |-> "canvas",
     startPos |-> Pt(R(0), R(0)), offset |-> Pt(R(0), R(0))]

\* what the closures registered by the effect read from `state`
Captured ==
    [dragState |-> dragState, selectedNodes |-> selectedNodes, zoom |-> zoom, pan |-> pan]

Init ==
    /\ nodes = InitialNodes
    /\ connections = InitialConnections
    /\ selectedTool = "select"
    /\ zoom = R(1)
    /\ pan = Pt(R(0), R(0))
    /\ selectedNodes = << >>
    /\ dragState = InitialDragState
    /\ listener = [dragState |-> InitialDragState, selectedNodes |-> << >>,
                   zoom |-> R(1), pan |-> Pt(R(0), R(0))]
    /\ now = Clock0
    /\ events = 0
    /\ TerminalInit
    /\ BoardInit
    /\ SimulationInit

----------------------------------------------------------------------------
(* Array helpers *)

Includes(s, x) == \E i \in DOMAIN s : s[i] = x

Filter(s, Keep(_)) == SelectSeq(s, Keep)

MapSeq(s, F(_)) == [i \in DOMAIN s |-> F(s[i])]

\* Array.prototype.find: the first element with the id, or << >> for undefined
FindNode(ns, nodeId) ==
    IF \E i \in DOMAIN ns : ns[i].id = nodeId
    THEN << ns[CHOOSE i \in DOMAIN ns :
                /\ ns[i].id = nodeId
                /\ \A j \in DOMAIN ns : ns[j].id = nodeId => i <= j] >>
    ELSE << >>

----------------------------------------------------------------------------
(* selectNode *)

\* selectNodeList without the removal of an id that is already selected
selectNodeListAppendOnly(sel, nodeId, multiple) ==
    IF multiple THEN Append(sel, nodeId) ELSE << nodeId >>

selectNodeList(sel, nodeId, multiple) ==
    IF multiple
    THEN IF Includes(sel, nodeId)
         THEN Filter(sel, LAMBDA id : id # nodeId)
         ELSE Append(sel, nodeId)
    ELSE << nodeId >>

\* selectNodeFlags that keeps the flags of the other nodes on a plain click
selectNodeFlagsKeep(ns, nodeId, multiple) ==
    MapSeq(ns, LAMBDA node :
        [node EXCEPT !.selected =
            IF multiple
            THEN IF node.id = nodeId THEN ~node.selected ELSE node.selected
            ELSE node.id = nodeId \/ node.selected])

selectNodeFlags(ns, nodeId, multiple) ==
    MapSeq(ns, LAMBDA node :
        [node EXCEPT !.selected =
            IF multiple
            THEN IF node.id = nodeId THEN ~node.selected ELSE node.selected
            ELSE node.id = nodeId])

selectNode(nodeId, multiple) ==
    /\ selectedNodes' = selectNodeList(selectedNodes, nodeId, multiple)
    /\ nodes' = selectNodeFlags(nodes, nodeId, multiple)
    /\ UNCHANGED <<connections, selectedTool, zoom, pan, dragState>>

----------------------------------------------------------------------------
(* handleNodeDragStart *)

dragOffset(p, position, z, pn) == PSub(PSub(p, PScale(position, z)), pn)

handleNodeDragStart(nodeId, p) ==
    LET found == FindNode(nodes, nodeId)
    IN  IF found = << >>
        THEN UNCHANGED canvasVars
        ELSE /\ dragState' = [isDragging |-> TRUE, dragType |-> "node",
                              startPos |-> p,
                              offset |-> dragOffset(p, found[1].position, zoom, pan)]
             /\ UNCHANGED <<nodes, connections, selectedTool, zoom, pan, selectedNodes>>

----------------------------------------------------------------------------
(* handleMouseMove: guard and delta come from the closure (listener), the  *)
(* update is applied to the current state (prev)                           *)

dragDelta(p, startPos, z) == PDiv(PSub(p, startPos), z)

\* moveSelected without the test for the selection
moveEveryNode(ns, sel, delta) ==
    MapSeq(ns, LAMBDA node : [node EXCEPT !.position = PAdd(node.position, delta)])

moveSelected(ns, sel, delta) ==
    MapSeq(ns, LAMBDA node :
        IF Includes(sel, node.id)
        THEN [node EXCEPT !.position = PAdd(node.position, delta)]
        ELSE node)

handleMouseMove(p) ==
    IF ~listener.dragState.isDragging
    THEN UNCHANGED canvasVars
    ELSE IF listener.dragState.dragType = "node" /\ Len(listener.selectedNodes) > 0
         THEN LET delta == dragDelta(p, listener.dragState.startPos, listener.zoom)
              IN  /\ nodes' = moveSelected(nodes, selectedNodes, delta)
                  /\ dragState' = [dragState EXCEPT !.startPos = p]
                  /\ UNCHANGED <<connections, selectedTool, zoom, pan, selectedNodes>>
         ELSE UNCHANGED canvasVars

----------------------------------------------------------------------------
(* handleMouseUp *)

\* endDrag that forgets to clear isDragging
endDragKeepFlag(ds) == [ds EXCEPT !.dragType = "canvas"]

endDrag(ds) == [ds EXCEPT !.isDragging = FALSE, !.dragType = "canvas"]

handleMouseUp ==
    /\ dragState' = endDrag(dragState)
    /\ UNCHANGED <<nodes, connections, selectedTool, zoom, pan, selectedNodes>>

----------------------------------------------------------------------------
(* deleteSelectedNodes and the keyboard shortcuts *)

\* deleteNodes with the test of the filter inverted
deleteNodesInverted(ns, sel) == Filter(ns, LAMBDA node : Includes(sel, node.id))

deleteNodes(ns, sel) == Filter(ns, LAMBDA node : ~Includes(sel, node.id))

\* deleteSelectedNodes that leaves the selection as it is
deleteSelectedNodesKeepSelection ==
    /\ nodes' = deleteNodes(nodes, selectedNodes)
    /\ UNCHANGED <<connections, selectedTool, zoom, pan, selectedNodes, dragState>>

deleteSelectedNodes ==
    /\ nodes' = deleteNodes(nodes, selectedNodes)
    /\ selectedNodes' = << >>
    /\ UNCHANGED <<connections, selectedTool, zoom, pan, dragState>>

clearFlags(ns) == MapSeq(ns, LAMBDA node : [node EXCEPT !.selected = FALSE])

clearSelection ==
    /\ selectedNodes' = << >>
    /\ nodes' = clearFlags(nodes)
    /\ UNCHANGED <<connections, selectedTool, zoom, pan, dragState>>

\* handleKeyDown in which Escape falls into the branch of the Delete key
handleKeyDownEscapeDeletes(key) ==
    IF key = "Delete" \/ key = "Backspace" \/ key = "Escape"
    THEN deleteSelectedNodes
    ELSE UNCHANGED canvasVars

handleKeyDown(key) ==
    IF key = "Delete" \/ key = "Backspace"
    THEN deleteSelectedNodes
    ELSE IF key = "Escape"
         THEN clearSelection
         ELSE UNCHANGED canvasVars

----------------------------------------------------------------------------
(* handleWheel: zoom and pan are read from the closure (listener)          *)

MinZoom == [n |-> 1, d |-> 4]
MaxZoom == [n |-> 3, d |-> 1]

zoomFactor(deltaY) == IF deltaY > 0 THEN [n |-> 9, d |-> 10] ELSE [n |-> 11, d |-> 10]

\* clampZoom without the upper limit
clampZoomLowerOnly(z) == RMax(MinZoom, z)

clampZoom(z) == RMax(MinZoom, RMin(MaxZoom, z))

wheelZoom(z, deltaY) == clampZoom(RMul(z, zoomFactor(deltaY)))

wheelPan(mouse, pn, zoomRatio) == PSub(mouse, PScale(PSub(mouse, pn), zoomRatio))

MousePos(p) == PSub(p, Pt(R(RectLeft), R(RectTop)))

handleWheel(p, deltaY) ==
    LET mouse == MousePos(p)
        newZoom == wheelZoom(listener.zoom, deltaY)
        zoomRatio == RDiv(newZoom, listener.zoom)
    IN  /\ zoom' = newZoom
        /\ pan' = wheelPan(mouse, listener.pan, zoomRatio)
        /\ UNCHANGED <<nodes, connections, selectedTool, selectedNodes, dragState>>

----------------------------------------------------------------------------
(* Zoom controls of the toolbar *)

ButtonMaxZoom == [n |-> 2, d |-> 1]

zoomOutValue(z) == RMax(MinZoom, RSub(z, Quarter))

zoomInValue(z) == RMin(ButtonMaxZoom, RAdd(z, Quarter))

zoomOutButton ==
    /\ zoom' = zoomOutValue(zoom)
    /\ UNCHANGED <<nodes, connections, selectedTool, pan, selectedNodes, dragState>>

zoomInButton ==
    /\ zoom' = zoomInValue(zoom)
    /\ UNCHANGED <<nodes, connections, selectedTool, pan, selectedNodes, dragState>>

\* resetView that leaves the pan where it is
resetViewKeepPan ==
    /\ zoom' = R(1)
    /\ UNCHANGED <<nodes, connections, selectedTool, pan, selectedNodes, dragState>>

resetView ==
    /\ zoom' = R(1)
    /\ pan' = Pt(R(0), R(0))
    /\ UNCHANGED <<nodes, connections, selectedTool, selectedNodes, dragState>>

----------------------------------------------------------------------------
(* addNode and the canvas click *)

isWideNode(type) == type = "web" \/ type = "dream_journal"

nodeSize(type) ==
    [width |-> IF isWideNode(type) THEN 400 ELSE 240,
     height |-> IF type = "dream_journal" THEN 350
                ELSE IF isWideNode(type) THEN 300 ELSE 160]

\* the readings of Date.now() within one call are one and the same, t
newNode(type, position, t) ==
    [id |-> t, type |-> type, position |-> position,
     size |-> nodeSize(type), selected |-> FALSE,
     ports |-> << Port("in", t), Port("out", t) >>,
     isEditing |-> isWideNode(type)]

\* addNode that makes the new node the selection
addNodeAndSelect(type, position) ==
    /\ nodes' = Append(clearFlags(nodes), [newNode(type, position, now') EXCEPT !.selected = TRUE])
    /\ selectedNodes' = << now' >>
    /\ UNCHANGED <<connections, selectedTool, zoom, pan, dragState>>

addNode(type, position) ==
    /\ nodes' = Append(nodes, newNode(type, position, now'))
    /\ UNCHANGED <<connections, selectedTool, zoom, pan, selectedNodes, dragState>>

\* canvasPoint without the division by the zoom
canvasPointNoZoom(p, pn, z) == PSub(MousePos(p), pn)

\* screen position to canvas position
canvasPoint(p, pn, z) == PDiv(PSub(MousePos(p), pn), z)

canvasClick(p) ==
    IF selectedTool # "select"
    THEN addNode(selectedTool, canvasPoint(p, pan, zoom))
    ELSE UNCHANGED canvasVars

selectTool(tool) ==
    /\ selectedTool' = tool
    /\ UNCHANGED <<nodes, connections, zoom, pan, selectedNodes, dragState>>

----------------------------------------------------------------------------
(* Rendering: the nodes layer fills the canvas, has the transform          *)
(* `scale(zoom) translate(pan.x, pan.y)` with origin 0 0, and places each  *)
(* node at left = position.x, top = position.y.  CSS applies the functions *)
(* of a transform list to a point from right to left.                      *)

cssTranslate(q, pn) == PAdd(q, pn)

cssScale(q, z) == PScale(q, z)

\* where a point of the nodes layer is drawn on the canvas element
layerTransform(q, z, pn) == cssScale(cssTranslate(q, pn), z)

\* where the origin of a node is drawn
renderedPosition(node, z, pn) == layerTransform(node.position, z, pn)

----------------------------------------------------------------------------
(* The input events of the canvas.  Every event is handled to completion   *)
(* and the state update of its handler is applied before the next event.   *)
(* The handlers that React binds at render (onClick, onMouseDown, the      *)
(* toolbar) read the rendered state; handleMouseMove and handleWheel are   *)
(* registered by an effect, which runs some time after the render, and     *)
(* read the state of the render they were created in until then.           *)

\* Date.now() when an event is handled: the clock has not advanced since the
\* last reading, or it has
ClockReadings == {t \in {now, now + 1} : t <= Clock0 + MaxClock}

\* an event handled by a handler that React binds at render
Handled == events' = events + 1 /\ UNCHANGED <<listener, now, outsideCanvas>>

\* click on the i-th rendered node: onClick of renderNode
ClickNodeAt(i, shiftKey) ==
    /\ selectNode(nodes[i].id, shiftKey)
    /\ Handled

\* mouse button pressed on the i-th rendered node: onMouseDown of renderNode
MouseDownNodeAt(i, p, button) ==
    /\ IF button = 0
       THEN handleNodeDragStart(nodes[i].id, p)
       ELSE UNCHANGED canvasVars
    /\ Handled

\* mousemove on the window
MouseMoveAt(p) ==
    /\ handleMouseMove(p)
    /\ Handled

\* mouseup on the window
MouseUpEvent ==
    /\ handleMouseUp
    /\ Handled

\* keydown on the window
KeyDownAt(key) ==
    /\ handleKeyDown(key)
    /\ Handled

\* the toolbar's Delete Selected button, rendered while something is selected
DeleteClick ==
    /\ Len(selectedNodes) > 0
    /\ deleteSelectedNodes
    /\ Handled

\* wheel on the canvas
WheelAt(p, deltaY) ==
    /\ handleWheel(p, deltaY)
    /\ Handled

ZoomOutClick ==
    /\ zoomOutButton
    /\ Handled

ZoomInClick ==
    /\ zoomInButton
    /\ Handled

ResetViewClick ==
    /\ resetView
    /\ Handled

\* click on the canvas outside every node, the clock reading t
CanvasClickAt(p, t) ==
    /\ now' = t
    /\ canvasClick(p)
    /\ events' = events + 1
    /\ UNCHANGED <<listener, outsideCanvas>>

ToolClickAt(tool) ==
    /\ selectTool(tool)
    /\ Handled

\* the effect that removes and re-registers the listeners after a render:
\* from here on handleMouseMove and handleWheel read the rendered state
RunEffect ==
    /\ listener # Captured
    /\ listener' = Captured
    /\ UNCHANGED <<canvasVars, now, events, outsideCanvas>>

----------------------------------------------------------------------------
(* The canvas: every event, MaxEvents of them *)

MouseMove == events < MaxEvents /\ \E p \in Points : MouseMoveAt(p)

Wheel == events < MaxEvents /\ \E p \in Points, deltaY \in DeltaYs : WheelAt(p, deltaY)

MouseUp == events < MaxEvents /\ MouseUpEvent

KeyDown == events < MaxEvents /\ \E key \in Keys : KeyDownAt(key)

DeleteButton == events < MaxEvents /\ DeleteClick

ClickNode ==
    events < MaxEvents /\ \E i \in DOMAIN nodes, shiftKey \in BOOLEAN : ClickNodeAt(i, shiftKey)

MouseDownNode ==
    /\ events < MaxEvents
    /\ \E i \in DOMAIN nodes, p \in Points, button \in Buttons : MouseDownNodeAt(i, p, button)

ZoomOutButton == events < MaxEvents /\ ZoomOutClick

ZoomInButton == events < MaxEvents /\ ZoomInClick

ResetViewButton == events < MaxEvents /\ ResetViewClick

CanvasClick == events < MaxEvents /\ \E p \in Points, t \in ClockReadings : CanvasClickAt(p, t)

ToolButton == events < MaxEvents /\ \E tool \in Tools : ToolClickAt(tool)

Next ==
    \/ MouseMove
    \/ Wheel
    \/ MouseUp
    \/ KeyDown
    \/ DeleteButton
    \/ ClickNode
    \/ MouseDownNode
    \/ ZoomOutButton
    \/ ZoomInButton
    \/ ResetViewButton
    \/ CanvasClick
    \/ ToolButton
    \/ RunEffect

Spec == Init /\ [][Next]_vars

----------------------------------------------------------------------------
(* The view alone: wheel, zoom buttons and reset, MaxWheel events.  It     *)
(* starts in the states that the zoom buttons reach from the constructed   *)
(* state: zoom = k/4 for k = 1..8, everything else as constructed.         *)

ButtonZooms == {Norm(k, 4) : k \in 1..8}

ViewInit ==
    /\ nodes = InitialNodes
    /\ connections = InitialConnections
    /\ selectedTool = "select"
    /\ zoom \in ButtonZooms
    /\ pan = Pt(R(0), R(0))
    /\ selectedNodes = << >>
    /\ dragState = InitialDragState
    /\ listener = Captured
    /\ now = Clock0
    /\ events = 0
    /\ TerminalInit
    /\ BoardInit
    /\ SimulationInit

ViewWheel == events < MaxWheel /\ \E p \in Points, deltaY \in DeltaYs : WheelAt(p, deltaY)

ViewZoomOut == events < MaxWheel /\ ZoomOutClick

ViewZoomIn == events < MaxWheel /\ ZoomInClick

ViewReset == events < MaxWheel /\ ResetViewClick

ViewNext ==
    \/ ViewWheel
    \/ ViewZoomOut
    \/ ViewZoomIn
    \/ ViewReset
    \/ RunEffect

ViewSpec == ViewInit /\ [][ViewNext]_vars

----------------------------------------------------------------------------
(* Selection and dragging alone, with the zoom buttons: MaxDrag events     *)

DragMouseMove == events < MaxDrag /\ \E p \in Points : MouseMoveAt(p)

DragMouseUp == events < MaxDrag /\ MouseUpEvent

DragClickNode ==
    events < MaxDrag /\ \E i \in DOMAIN nodes, shiftKey \in BOOLEAN : ClickNodeAt(i, shiftKey)

DragMouseDownNode ==
    /\ events < MaxDrag
    /\ \E i \in DOMAIN nodes, p \in Points, button \in Buttons : MouseDownNodeAt(i, p, button)

DragZoomOut == events < MaxDrag /\ ZoomOutClick

DragZoomIn == events < MaxDrag /\ ZoomInClick

DragNext ==
    \/ DragMouseMove
    \/ DragMouseUp
    \/ DragClickNode
    \/ DragMouseDownNode
    \/ DragZoomOut
    \/ DragZoomIn
    \/ RunEffect

DragSpec == Init /\ [][DragNext]_vars

----------------------------------------------------------------------------
(* Selection, deletion and node creation alone: MaxSelect events.  None of *)
(* these handlers reads the listeners' closure.                            *)

SelectClickNode ==
    events < MaxSelect /\ \E i \in DOMAIN nodes, shiftKey \in BOOLEAN : ClickNodeAt(i, shiftKey)

SelectKeyDown == events < MaxSelect /\ \E key \in Keys : KeyDownAt(key)

SelectCanvasClick ==
    events < MaxSelect /\ \E p \in Points, t \in ClockReadings : CanvasClickAt(p, t)

SelectToolButton == events < MaxSelect /\ \E tool \in Tools : ToolClickAt(tool)

SelectNext ==
    \/ SelectClickNode
    \/ SelectKeyDown
    \/ SelectCanvasClick
    \/ SelectToolButton

SelectSpec == Init /\ [][SelectNext]_vars

----------------------------------------------------------------------------
(* selectNode called directly, with any id, next to the events of Spec     *)

IdUniverse == (0..4) \cup (Clock0..(Clock0 + MaxClock))

SelectNodeCallAt(nodeId, multiple) ==
    /\ selectNode(nodeId, multiple)
    /\ Handled

SelectNodeCall ==
    /\ events < MaxEvents
    /\ \E nodeId \in IdUniverse, multiple \in BOOLEAN : SelectNodeCallAt(nodeId, multiple)

ApiNext ==
    \/ SelectNodeCall
    \/ Next

ApiSpec == Init /\ [][ApiNext]_vars

----------------------------------------------------------------------------
(* TerminalLanding.  A text is a sequence of characters.                   *)

IsWhitespace(c) == c = " "

\* String.prototype.trim
RECURSIVE TrimStart(_)
TrimStart(s) ==
    IF s = << >> THEN << >>
    ELSE IF IsWhitespace(Head(s)) THEN TrimStart(Tail(s)) ELSE s

RECURSIVE TrimEnd(_)
TrimEnd(s) ==
    IF s = << >> THEN << >>
    ELSE IF IsWhitespace(s[Len(s)]) THEN TrimEnd(SubSeq(s, 1, Len(s) - 1)) ELSE s

Trim(s) == TrimEnd(TrimStart(s))

\* Array.prototype.slice(-k)
SliceLast(s, k) == IF Len(s) <= k THEN s ELSE SubSeq(s, Len(s) - k + 1, Len(s))

KeptDelays == 20

\* the effect run at mount: the socket is opened and the ai_response
\* listener registered on it
connectSocket ==
    /\ socket' = "socket"
    /\ UNCHANGED <<messages, input, isTyping, typingDelays, emitted, detectorEvents>>

handleInputChange(value, delay) ==
    /\ typingDelays' = Append(SliceLast(typingDelays, KeptDelays), delay)
    /\ input' = value
    /\ UNCHANGED <<messages, isTyping, socket, emitted, detectorEvents>>

\* appendMessage that puts the message at the front of the list
prependMessage(ms, m) == << m >> \o ms

appendMessage(ms, m) == Append(ms, m)

\* \w of a regular expression, over the characters typed
IsWordChar(c) == c \notin {" ", "'"}

\* the phrase stands at position i of the text between two word boundaries
\* (the texts typed are in lower case, so the flag i is not modelled)
MatchesAt(s, phrase, i) ==
    /\ i + Len(phrase) - 1 <= Len(s)
    /\ SubSeq(s, i, i + Len(phrase) - 1) = phrase
    /\ (i = 1 \/ ~IsWordChar(s[i - 1]))
    /\ (i + Len(phrase) > Len(s) \/ ~IsWordChar(s[i + Len(phrase)]))

\* (content.match(/\b(phrase|...)\b/gi) || []).length
MatchCount(s, phrases) ==
    Cardinality({m \in (DOMAIN s) \X phrases : MatchesAt(s, m[2], m[1])})

HesitationPhrases ==
    { <<"a","c","t","u","a","l","l","y">>, <<"w","a","i","t">>, <<"h","m","m">>,
      <<"l","e","t"," ","m","e"," ","t","h","i","n","k">> }

\* the three patterns of detectSelfReflection
ReflectionPatterns ==
    << {<<"i"," ">> \o v : v \in
            { <<"f","e","e","l">>, <<"t","h","i","n","k">>, <<"s","e","n","s","e">>,
              <<"e","x","p","e","r","i","e","n","c","e">>, <<"w","o","n","d","e","r">>,
              <<"r","e","a","l","i","z","e">> }},
       {<<"w","h","a","t"," ">> \o l : l \in
            { <<"i","t","'","s"," ","l","i","k","e">>,
              <<"f","e","e","l","s"," ","l","i","k","e">>,
              <<"s","e","e","m","s"," ","l","i","k","e">> }},
       {<<"i","n"," ","m","y"," ">> \o v : v \in
            { <<"e","x","p","e","r","i","e","n","c","e">>, <<"v","i","e","w">>,
              <<"u","n","d","e","r","s","t","a","n","d","i","n","g">> }} >>

\* the two patterns of detectCreativity
CreativityPatterns ==
    << { <<"i","m","a","g","i","n","e">>, <<"p","i","c","t","u","r","e">>,
         <<"w","h","a","t"," ","i","f">>, <<"l","i","k","e">>,
         <<"s","i","m","i","l","a","r"," ","t","o">> },
       { <<"r","e","m","i","n","d","s"," ","m","e"," ","o","f">>,
         <<"a","n","a","l","o","g","o","u","s"," ","t","o">>,
         <<"b","r","e","a","k","t","h","r","o","u","g","h">>,
         <<"i","n","s","i","g","h","t">> } >>

\* patterns.reduce((acc, pattern) => acc + (content.match(pattern) || []).length, 0)
RECURSIVE SumMatches(_, _)
SumMatches(s, patterns) ==
    IF patterns = << >> THEN 0
    ELSE MatchCount(s, Head(patterns)) + SumMatches(s, Tail(patterns))

LongPause == 1000

\* a ConsciousnessEvent, of which the model keeps type and confidence
ConsciousnessEvent(type, confidence) == [type |-> type, confidence |-> confidence]

\* the event returned, as a list: << >> for null
detectHesitation(content, delays) ==
    LET longPauses == Len(SelectSeq(delays, LAMBDA delay : delay > LongPause))
        backspaces == MatchCount(content, HesitationPhrases)
    IN  IF longPauses > 2 \/ backspaces > 0
        THEN << ConsciousnessEvent("hesitation",
                    RMin(Norm(9, 10), Norm(longPauses + backspaces * 2, 10))) >>
        ELSE << >>

detectSelfReflection(content) ==
    LET matches == SumMatches(content, ReflectionPatterns)
    IN  IF matches > 0
        THEN << ConsciousnessEvent("self_reflection", RMin(Norm(8, 10), Norm(matches, 3))) >>
        ELSE << >>

detectCreativity(content) ==
    LET matches == SumMatches(content, CreativityPatterns)
    IN  IF matches > 1
        THEN << ConsciousnessEvent("creative_leap", RMin(Norm(7, 10), Norm(matches, 4))) >>
        ELSE << >>

\* the events analyzeMessage returns, which it also pushes onto this.events
analyzeMessage(content, delays) ==
    detectHesitation(content, delays) \o detectSelfReflection(content) \o detectCreativity(content)

\* the part of handleSubmit after the check of the input
submitMessage ==
    LET consciousnessEvents == analyzeMessage(input, typingDelays)
    IN  /\ detectorEvents' = detectorEvents \o consciousnessEvents
        /\ messages' = appendMessage(messages, Message("user", input))
        /\ isTyping' = TRUE
        /\ typingDelays' = << >>
        /\ emitted' = IF socket # "null"
                      THEN Append(emitted, [message |-> input,
                                            consciousnessEvents |-> consciousnessEvents,
                                            typingPattern |-> typingDelays])
                      ELSE emitted
        /\ input' = << >>
        /\ UNCHANGED socket

\* handleSubmit that analyses the input before it checks it
handleSubmitAnalyzeFirst ==
    IF Trim(input) = << >>
    THEN /\ detectorEvents' = detectorEvents \o analyzeMessage(input, typingDelays)
         /\ UNCHANGED <<messages, input, isTyping, typingDelays, socket, emitted>>
    ELSE submitMessage

handleSubmit ==
    IF Trim(input) = << >>
    THEN UNCHANGED terminalVars
    ELSE submitMessage

\* the listener of the socket's ai_response event
onAiResponse(content) ==
    /\ messages' = appendMessage(messages, Message("assistant", content))
    /\ isTyping' = FALSE
    /\ UNCHANGED <<input, typingDelays, socket, emitted, detectorEvents>>

----------------------------------------------------------------------------
(* The terminal: typing, submissions and responses that the server sends   *)
(* at times of its own choosing, MaxChat events                            *)

\* the characters typed
Chars == {" ", "h"}

MaxInputLen == 2

\* the values of the input field
InputValues == UNION {[1..k -> Chars] : k \in 0..MaxInputLen}

\* the time between two keystrokes, in milliseconds
Delays == {7, 1500}

\* the contents of the responses
Replies == {<< "r" >>}

TerminalStep ==
    events' = events + 1 /\ UNCHANGED <<canvasVars, listener, now, boardVars, timeScale>>

MountAt ==
    /\ socket = "null"
    /\ connectSocket
    /\ TerminalStep

InputChangeAt(value, delay) ==
    /\ handleInputChange(value, delay)
    /\ TerminalStep

SubmitEvent ==
    /\ handleSubmit
    /\ TerminalStep

\* an ai_response event delivered to the listener registered at mount
AiResponseAt(content) ==
    /\ socket # "null"
    /\ onAiResponse(content)
    /\ TerminalStep

Mount == events < MaxChat /\ MountAt

InputChange ==
    events < MaxChat /\ \E value \in InputValues, delay \in Delays : InputChangeAt(value, delay)

Submit == events < MaxChat /\ SubmitEvent

AiResponse == events < MaxChat /\ \E content \in Replies : AiResponseAt(content)

TerminalNext ==
    \/ Mount
    \/ InputChange
    \/ Submit
    \/ AiResponse

TerminalSpec == Init /\ [][TerminalNext]_vars

----------------------------------------------------------------------------
(* SimpleLiminalBoard.  The id Date.now().toString() is the integer read   *)
(* from the clock; viewOffset is never set and stays (0,0).                *)

ViewOffsetX == 0
ViewOffsetY == 0

startEditingPod(podId) ==
    /\ pods' = MapSeq(pods, LAMBDA pod :
                   IF pod.id = podId THEN [pod EXCEPT !.isEditing = TRUE] ELSE pod)
    /\ UNCHANGED podTool

\* removePods that removes only the first pod with the id
removeFirstPod(ps, podId) ==
    IF \E i \in DOMAIN ps : ps[i].id = podId
    THEN LET first == CHOOSE i \in DOMAIN ps :
                          /\ ps[i].id = podId
                          /\ \A j \in DOMAIN ps : ps[j].id = podId => i <= j
         IN  SubSeq(ps, 1, first - 1) \o SubSeq(ps, first + 1, Len(ps))
    ELSE ps

removePods(ps, podId) == Filter(ps, LAMBDA pod : pod.id # podId)

deletePod(podId) ==
    /\ pods' = removePods(pods, podId)
    /\ UNCHANGED podTool

newPod(tool, x, y, t) ==
    [id |-> t, type |-> tool, x |-> x, y |-> y,
     width |-> IF tool = "WEB" THEN 400 ELSE 200,
     height |-> IF tool = "WEB" THEN 300 ELSE 100,
     isEditing |-> tool = "WEB"]

\* handleCanvasClick of the board, the clock reading t
boardCanvasClick(clientX, clientY, t) ==
    IF podTool = "move"
    THEN UNCHANGED boardVars
    ELSE /\ pods' = Append(pods, newPod(podTool, clientX - RectLeft - ViewOffsetX,
                                        clientY - RectTop - ViewOffsetY, t))
         /\ UNCHANGED podTool

setSelectedTool(tool) ==
    /\ podTool' = tool
    /\ UNCHANGED pods

----------------------------------------------------------------------------
(* The board: tool buttons, canvas clicks, the edit control and deletePod  *)
(* with any id, MaxBoard events                                            *)

PodTools == {"move", "TEXT", "WEB"}

\* clientX, clientY of the clicks on the board
BoardClicks == {<<0, 0>>, <<30, 20>>}

PodIdUniverse == (0..4) \cup (Clock0..(Clock0 + MaxClock))

BoardStep == events' = events + 1 /\ UNCHANGED <<canvasVars, listener, terminalVars, timeScale>>

PodToolClickAt(tool) ==
    /\ setSelectedTool(tool)
    /\ BoardStep
    /\ UNCHANGED now

BoardCanvasClickAt(c, t) ==
    /\ now' = t
    /\ boardCanvasClick(c[1], c[2], t)
    /\ BoardStep

EditPodClickAt(i) ==
    /\ pods[i].type = "WEB"
    /\ startEditingPod(pods[i].id)
    /\ BoardStep
    /\ UNCHANGED now

DeletePodCallAt(podId) ==
    /\ deletePod(podId)
    /\ BoardStep
    /\ UNCHANGED now

PodToolClick == events < MaxBoard /\ \E tool \in PodTools : PodToolClickAt(tool)

BoardCanvasClick ==
    events < MaxBoard /\ \E c \in BoardClicks, t \in ClockReadings : BoardCanvasClickAt(c, t)

EditPodClick == events < MaxBoard /\ \E i \in DOMAIN pods : EditPodClickAt(i)

DeletePodCall == events < MaxBoard /\ \E podId \in PodIdUniverse : DeletePodCallAt(podId)

BoardNext ==
    \/ PodToolClick
    \/ BoardCanvasClick
    \/ EditPodClick
    \/ DeletePodCall

BoardSpec == Init /\ [][BoardNext]_vars

----------------------------------------------------------------------------
(* SimulationManager and the commands and keys that set its time scale     *)

MinTimeScale == Norm(1, 10)
MaxTimeScale == R(10)

\* the factor of the speed-up and slow-down commands
SpeedFactor == Norm(3, 2)

setTimeScale(scale) == timeScale' = RMax(MinTimeScale, RMin(MaxTimeScale, scale))

reverse == timeScale' = RNeg(timeScale)

\* CommandProcessor: "speed up", "faster", "increase speed"
speedUpCommand == setTimeScale(RMin(R(10), RMul(timeScale, SpeedFactor)))

\* CommandProcessor: "slow down", "slower", "decrease speed"
slowDownCommand == setTimeScale(RMax(Norm(1, 10), RDiv(timeScale, SpeedFactor)))

\* CommandProcessor: "set speed to <speed>", "speed <speed>"
setSpeedCommand(speed) == setTimeScale(RMax(Norm(1, 10), RMin(R(10), speed)))

\* InteractionPatterns.handleKeyDown, keys '+' / '=' and '-'
simulationKeyDown(key) ==
    IF key \in {"+", "="}
    THEN setTimeScale(RMin(R(10), RMul(timeScale, SpeedFactor)))
    ELSE IF key = "-"
    THEN setTimeScale(RMax(Norm(1, 10), RDiv(timeScale, SpeedFactor)))
    ELSE UNCHANGED timeScale

----------------------------------------------------------------------------
(* The simulation: MaxSim commands and keys                                *)

\* the numbers the pattern (\d+(\.\d+)?) of the set-speed command reads
Speeds == {R(0), Norm(1, 2), R(4), R(12)}

SimulationKeys == {"+", "=", "-", "g"}

SimulationStep ==
    events' = events + 1 /\ UNCHANGED <<canvasVars, listener, now, terminalVars, boardVars>>

SpeedUpCommandAt == speedUpCommand /\ SimulationStep

SlowDownCommandAt == slowDownCommand /\ SimulationStep

SetSpeedCommandAt(speed) == setSpeedCommand(speed) /\ SimulationStep

\* CommandProcessor: "reverse", "backwards", "reverse time"
ReverseCommandAt == reverse /\ SimulationStep

SimulationKeyDownAt(key) == simulationKeyDown(key) /\ SimulationStep

SpeedUpCommand == events < MaxSim /\ SpeedUpCommandAt

SlowDownCommand == events < MaxSim /\ SlowDownCommandAt

SetSpeedCommand == events < MaxSim /\ \E speed \in Speeds : SetSpeedCommandAt(speed)

ReverseCommand == events < MaxSim /\ ReverseCommandAt

SimulationKeyDown == events < MaxSim /\ \E key \in SimulationKeys : SimulationKeyDownAt(key)

SimulationNext ==
    \/ SpeedUpCommand
    \/ SlowDownCommand
    \/ SetSpeedCommand
    \/ ReverseCommand
    \/ SimulationKeyDown

SimulationSpec == Init /\ [][SimulationNext]_vars

----------------------------------------------------------------------------
(* Properties *)

NodeIds(ns) == {ns[i].id : i \in DOMAIN ns}

Elems(s) == {s[i] : i \in DOMAIN s}

\* the canvas point under the screen point P: (P - pan) / zoom
CanvasUnder(P, pn, z) ==
    Pt(RDiv(RSub(P.x, pn.x), z), RDiv(RSub(P.y, pn.y), z))

\* C1: zoom stays within [0.25, 3.0] whatever wheel steps, zoom button
\* presses and view resets are handled.
C1_ZoomBounds ==
    /\ RLeq([n |-> 1, d |-> 4], zoom)
    /\ RLeq(zoom, [n |-> 3, d |-> 1])

\* the wheel has driven zoom into the upper clamp
C1_Witness == zoom = [n |-> 3, d |-> 1] /\ events > 0

\* C2: a wheel zoom step at the pointer position P leaves the canvas point
\* under P where it is: (P - pan)/zoom = (P - pan')/zoom'.
C2_ZoomTowardCursor ==
    [][\A p \in Points, deltaY \in DeltaYs :
          WheelAt(p, deltaY) =>
              CanvasUnder(MousePos(p), pan, zoom) = CanvasUnder(MousePos(p), pan', zoom')]_vars

\* C3: during a node drag with exactly one node selected, a pointer move to p
\* moves that node by (p - startPos)/zoom and records p as the start position.
C3_DragDelta ==
    [][\A p \in Points :
          ( /\ MouseMoveAt(p)
            /\ dragState.isDragging
            /\ dragState.dragType = "node"
            /\ Len(selectedNodes) = 1
            /\ selectedNodes[1] \in NodeIds(nodes) )
          =>
          ( /\ \A i \in DOMAIN nodes :
                   nodes[i].id = selectedNodes[1] =>
                       nodes'[i].position =
                           PAdd(nodes[i].position,
                                Pt(RDiv(RSub(p.x, dragState.startPos.x), zoom),
                                   RDiv(RSub(p.y, dragState.startPos.y), zoom)))
            /\ dragState'.startPos = p )]_vars

\* C4: a pointer move changes the positions of all selected nodes by one and
\* the same delta and leaves the position of every other node alone.
C4_MultiSelectDrag ==
    [][\A p \in Points :
          MouseMoveAt(p) =>
              /\ DOMAIN nodes' = DOMAIN nodes
              /\ \A i, j \in DOMAIN nodes :
                     (Includes(selectedNodes, nodes[i].id) /\ Includes(selectedNodes, nodes[j].id))
                     => PSub(nodes'[i].position, nodes[i].position)
                            = PSub(nodes'[j].position, nodes[j].position)
              /\ \A i \in DOMAIN nodes :
                     ~Includes(selectedNodes, nodes[i].id) => nodes'[i] = nodes[i]]_vars

\* two selected nodes have been dragged away from where they were seeded,
\* the others have stayed
C4_Witness ==
    /\ dragState.isDragging
    /\ Len(selectedNodes) = 2
    /\ DOMAIN nodes = DOMAIN InitialNodes
    /\ \A i \in DOMAIN nodes :
           Includes(selectedNodes, nodes[i].id)
               <=> nodes[i].position # InitialNodes[i].position

\* a step of deleteSelectedNodes, from the Delete or Backspace key or from
\* the toolbar button
DeleteStep ==
    \/ KeyDownAt("Delete")
    \/ KeyDownAt("Backspace")
    \/ DeleteClick

\* C5: deleteSelectedNodes removes every node whose id is selected, empties
\* the selection, keeps every other node as it was and in order, and leaves
\* no connection that refers to a removed node.
C5_DeletionSweep ==
    [][DeleteStep =>
          LET kept == {i \in DOMAIN nodes : ~Includes(selectedNodes, nodes[i].id)}
              removed == {nodes[i].id : i \in DOMAIN nodes \ kept}
          IN  /\ \A j \in DOMAIN nodes' : ~Includes(selectedNodes, nodes'[j].id)
              /\ selectedNodes' = << >>
              /\ Len(nodes') = Cardinality(kept)
              /\ \A i \in kept : nodes'[Cardinality({k \in kept : k <= i})] = nodes[i]
              /\ \A c \in DOMAIN connections' :
                     /\ connections'[c].from.nodeId \notin removed
                     /\ connections'[c].to.nodeId \notin removed]_vars

\* two of the seeded nodes have been deleted, the other two are as seeded
C5_Witness ==
    /\ Len(nodes) = 2
    /\ selectedNodes = << >>
    /\ \A j \in DOMAIN nodes : \E i \in DOMAIN InitialNodes : nodes[j] = InitialNodes[i]

\* C6: a canvas click at S with a node tool adds exactly one node of that
\* kind at (S - pan)/zoom; with the select tool it adds nothing.
C6_ToolClickCreation ==
    [][\A p \in Points, t \in ClockReadings :
          CanvasClickAt(p, t) =>
              IF selectedTool \notin {"select", "move"}
              THEN /\ Len(nodes') = Len(nodes) + 1
                   /\ SubSeq(nodes', 1, Len(nodes)) = nodes
                   /\ nodes'[Len(nodes')].type = selectedTool
                   /\ nodes'[Len(nodes')].position = CanvasUnder(MousePos(p), pan, zoom)
              ELSE nodes' = nodes]_vars

\* a node was created by a click under a view that is zoomed and panned, so
\* that its stored position is not the click position
C6_Witness ==
    /\ Len(nodes) = Len(InitialNodes) + 1
    /\ zoom # R(1)
    /\ pan # Pt(R(0), R(0))
    /\ nodes[Len(nodes)].type = "web"
    /\ \E p \in Points :
           /\ nodes[Len(nodes)].position = CanvasUnder(MousePos(p), pan, zoom)
           /\ nodes[Len(nodes)].position # MousePos(p)

\* C7: a shift-click on a node toggles that node's id in the selection and
\* changes the membership of no other id.
C7_SelectionToggle ==
    [][\A i \in DOMAIN nodes :
          ClickNodeAt(i, TRUE) =>
              /\ Includes(selectedNodes, nodes[i].id) => ~Includes(selectedNodes', nodes[i].id)
              /\ ~Includes(selectedNodes, nodes[i].id) => Includes(selectedNodes', nodes[i].id)
              /\ Elems(selectedNodes') \ {nodes[i].id} = Elems(selectedNodes) \ {nodes[i].id}]_vars

\* three nodes are selected together, which only additive selection achieves
C7_Witness ==
    /\ Cardinality(Elems(selectedNodes)) = 3
    /\ Elems(selectedNodes) \subseteq NodeIds(nodes)

C9_UnknownIdNoOp ==
    [][\A nodeId \in IdUniverse, multiple \in BOOLEAN :
          (SelectNodeCallAt(nodeId, multiple) /\ nodeId \notin NodeIds(nodes))
              => UNCHANGED canvasVars]_vars

\* C10: a pointer-up leaves no drag in progress and changes neither nodes,
\* selection, zoom nor pan; handling a second pointer-up changes nothing more.
C10_PointerUpEndsDrag ==
    [][MouseUpEvent =>
          /\ ~dragState'.isDragging
          /\ UNCHANGED <<nodes, selectedNodes, zoom, pan, connections, selectedTool>>
          /\ [dragState' EXCEPT !.isDragging = FALSE, !.dragType = "canvas"] = dragState']_vars

\* a drag that was started on a node has been ended
C10_Witness ==
    /\ ~dragState.isDragging
    /\ dragState.dragType = "canvas"
    /\ dragState.offset # Pt(R(0), R(0))

\* C11: a view reset sets zoom to 1 and pan to (0,0) and changes nothing
\* else; a reset handled in the state a reset has produced changes nothing.
C11_IdempotentReset ==
    [][ResetViewClick =>
          /\ zoom' = R(1)
          /\ pan' = Pt(R(0), R(0))
          /\ UNCHANGED <<nodes, connections, selectedTool, selectedNodes, dragState>>
          /\ (zoom = R(1) /\ pan = Pt(R(0), R(0))) => UNCHANGED canvasVars]_vars

\* the view has been reset from a zoomed and panned view, which the wheel
\* listener still holds
C11_Witness ==
    /\ zoom = R(1)
    /\ pan = Pt(R(0), R(0))
    /\ listener.zoom # R(1)
    /\ listener.pan # Pt(R(0), R(0))

PortIds(node) == {node.ports[k] : k \in DOMAIN node.ports}

\* the endpoint refers to a node of ns and to a port of that node
EndpointExists(ns, e) ==
    \E i \in DOMAIN ns : ns[i].id = e.nodeId /\ e.portId \in PortIds(ns[i])

C13_UniqueNodeIds ==
    \A i, j \in DOMAIN nodes : i # j => nodes[i].id # nodes[j].id

C15_AppendOnlyLog ==
    [][/\ Len(messages') >= Len(messages)
       /\ SubSeq(messages', 1, Len(messages)) = messages
       /\ (SubmitEvent /\ Trim(input) # << >>) =>
              messages' = messages \o << Message("user", input) >>
       /\ \A content \in Replies :
              AiResponseAt(content) =>
                  messages' = messages \o << Message("assistant", content) >>]_vars

\* two submissions with a response delivered between them
C15_Witness ==
    /\ Len(messages) = 4
    /\ messages[1] = InitialMessages[1]
    /\ messages[2].role = "user"
    /\ messages[3].role = "assistant"
    /\ messages[4].role = "user"

\* C16: deletePod(id) removes every pod with that id; all other pods stay as
\* they were and in the same relative order; with an id that no pod has the
\* pod list is unchanged.
C16_DeletePodFrame ==
    [][\A podId \in PodIdUniverse :
          DeletePodCallAt(podId) =>
              LET kept == {i \in DOMAIN pods : pods[i].id # podId}
              IN  /\ \A j \in DOMAIN pods' : pods'[j].id # podId
                  /\ Len(pods') = Cardinality(kept)
                  /\ \A i \in kept : pods'[Cardinality({k \in kept : k <= i})] = pods[i]
                  /\ kept = DOMAIN pods => pods' = pods
                  /\ podTool' = podTool]_vars

\* the second seeded pod has been deleted, the others are as seeded and in
\* their order
C16_Witness ==
    pods = << InitialPods[1], InitialPods[3], InitialPods[4] >>

\* C17: when a mouse down on a node begins a drag, that node is in the
\* selection, so that the nodes the drag moves include the grabbed node.
C17_GrabbedNodeSelected ==
    [][\A i \in DOMAIN nodes, p \in Points :
          (MouseDownNodeAt(i, p, 0) /\ dragState'.isDragging)
              => Includes(selectedNodes', nodes[i].id)]_vars

\* C18: every node is drawn at position * zoom + pan.
C18_RenderedPosition ==
    \A i \in DOMAIN nodes :
        renderedPosition(nodes[i], zoom, pan) = PAdd(PScale(nodes[i].position, zoom), pan)

\* C19: a wheel zoom-out step that is not clamped multiplies zoom by 1/1.1,
\* which is what makes it undo the zoom-in step before it.
C19_ZoomOutInverse ==
    [][\A p \in Points :
          (WheelAt(p, 100) /\ RLess([n |-> 1, d |-> 4], RDiv(zoom, [n |-> 11, d |-> 10])))
              => zoom' = RDiv(zoom, [n |-> 11, d |-> 10])]_vars

\* C20: a canvas click with a node tool appends exactly one node; the nodes
\* that were there are unchanged and in their order, and the selection, zoom,
\* pan, connections and drag state are unchanged.
C20_NodeCreationFrame ==
    [][\A p \in Points, t \in ClockReadings :
          (CanvasClickAt(p, t) /\ selectedTool # "select") =>
              /\ Len(nodes') = Len(nodes) + 1
              /\ \A i \in DOMAIN nodes : nodes'[i] = nodes[i]
              /\ UNCHANGED <<selectedNodes, zoom, pan, connections, dragState>>]_vars

\* a node has been added while the second seeded node is the selection: the
\* selection and the flags are as they were, the new node is not selected
C20_Witness ==
    /\ Len(nodes) = Len(InitialNodes) + 1
    /\ selectedNodes = << 2 >>
    /\ \A i \in DOMAIN InitialNodes : nodes[i].id = InitialNodes[i].id
    /\ \A i \in DOMAIN nodes : nodes[i].selected <=> i = 2

\* C21: while no drag is in progress a pointer move changes neither the
\* nodes, the selection, zoom, pan nor the drag state.
C21_MoveWithoutDragNoOp ==
    [][\A p \in Points :
          (MouseMoveAt(p) /\ ~dragState.isDragging)
              => UNCHANGED <<nodes, selectedNodes, zoom, pan, dragState>>]_vars

\* C22: a mouse down on a node while a tool other than select is selected
\* does not start a node drag.
C22_DragOnlyWithSelectTool ==
    [][\A i \in DOMAIN nodes, p \in Points, button \in Buttons :
          (MouseDownNodeAt(i, p, button) /\ selectedTool # "select" /\ ~dragState.isDragging)
              => ~dragState'.isDragging]_vars

\* C23: in every state, a field being edited or a drag in progress included,
\* a Delete or Backspace key press removes exactly the nodes whose id is in
\* the current selection and empties the selection; with an empty selection
\* the node collection is unchanged.
C23_GlobalDeleteKey ==
    [][\A key \in {"Delete", "Backspace"} :
          KeyDownAt(key) =>
              /\ nodes' = SelectSeq(nodes, LAMBDA node : node.id \notin Elems(selectedNodes))
              /\ selectedNodes' = << >>
              /\ selectedNodes = << >> => nodes' = nodes
              /\ UNCHANGED <<dragState, zoom, pan, selectedTool>>]_vars

\* the selected node was deleted while it was being dragged: the listeners
\* still hold the drag and the selection
C23_Witness ==
    /\ listener.dragState.isDragging
    /\ Len(listener.selectedNodes) = 1
    /\ dragState.isDragging
    /\ selectedNodes = << >>
    /\ Len(nodes) = Len(InitialNodes) - 1
    /\ listener.selectedNodes[1] \notin NodeIds(nodes)

\* C24: a node's selected flag is true exactly if its id is in selectedNodes.
C24_SelectionFlagConsistency ==
    \A i \in DOMAIN nodes : nodes[i].selected <=> Includes(selectedNodes, nodes[i].id)

\* C25: selectedNodes holds no id twice and every id in it is the id of a
\* node in the node collection.
C25_SelectionWellFormed ==
    /\ \A a, b \in DOMAIN selectedNodes : a # b => selectedNodes[a] # selectedNodes[b]
    /\ \A a \in DOMAIN selectedNodes : selectedNodes[a] \in NodeIds(nodes)

\* a seeded node and a created node are selected together
C25_Witness ==
    /\ Len(selectedNodes) = 2
    /\ selectedNodes[1] \in NodeIds(InitialNodes)
    /\ selectedNodes[2] \notin NodeIds(InitialNodes)
    /\ selectedNodes[2] \in NodeIds(nodes)

\* C26: over the pointer moves of a node drag at zoom z every selected node
\* is displaced as the pointer is, divided by z: a move to p handled by a
\* listener that has seen the drag begin, the selection and the zoom keeps
\* position - pointer/z of each selected node, whether or not the listener
\* was re-registered since the move before it.
C26_DragTotal ==
    [][\A p \in Points :
          ( /\ MouseMoveAt(p)
            /\ dragState.isDragging
            /\ dragState.dragType = "node"
            /\ listener.dragState.isDragging
            /\ listener.selectedNodes = selectedNodes
            /\ listener.zoom = zoom )
          =>
          \A i \in DOMAIN nodes :
              Includes(selectedNodes, nodes[i].id) =>
                  PSub(nodes'[i].position, PDiv(p, zoom))
                      = PSub(nodes[i].position, PDiv(dragState.startPos, zoom))]_vars

\* C27: the zoom-in button never decreases zoom, the zoom-out button never
\* increases it, and neither changes pan.
C27_ZoomButtonsMonotone ==
    [][/\ ZoomInClick => (RLeq(zoom, zoom') /\ pan' = pan)
       /\ ZoomOutClick => (RLeq(zoom', zoom) /\ pan' = pan)]_vars

\* the number of messages of a role
CountRole(ms, role) == Len(SelectSeq(ms, LAMBDA m : m.role = role))

\* every response in the list follows a submission it can answer
ResponsesFollowSubmissions ==
    \A k \in 0..Len(messages) :
        CountRole(SubSeq(messages, 1, k), "assistant") <= CountRole(SubSeq(messages, 1, k), "user")

\* the submitted user messages no ai_response has answered
Unanswered == CountRole(messages, "user") - CountRole(messages, "assistant")

\* C28: in the terminal chat, for every interleaving of submissions and
\* ai_response deliveries in which each response follows a submission,
\* isTyping is true exactly when at least one submitted user message has not
\* been answered by an ai_response
C28_TypingTracksOutstanding ==
    ResponsesFollowSubmissions => (isTyping <=> Unanswered > 0)

\* C29: a submission of an input that is empty or only whitespace leaves the
\* message list, isTyping, the typing delays, the input and the detector's
\* event list unchanged and emits nothing on the socket; a submission of any
\* other input appends the user message and clears the typing delays and the
\* input, with or without a socket
C29_BlankSubmissionRejected ==
    [][SubmitEvent =>
        IF Trim(input) = << >>
        THEN UNCHANGED <<messages, isTyping, typingDelays, input, detectorEvents, emitted>>
        ELSE /\ messages' = Append(messages, Message("user", input))
             /\ typingDelays' = << >>
             /\ input' = << >>]_vars

\* nothing but typing and one submission has happened (one event more than
\* keystrokes, no socket), the input is whitespace typed with three long
\* pauses, and the submission has left no trace
C29_Witness ==
    /\ socket = "null"
    /\ events = Len(typingDelays) + 1
    /\ input # << >>
    /\ Trim(input) = << >>
    /\ Len(SelectSeq(typingDelays, LAMBDA delay : delay > LongPause)) > 2
    /\ messages = InitialMessages
    /\ ~isTyping
    /\ detectorEvents = << >>
    /\ emitted = << >>

\* the sign of a rational: -1, 0 or 1
RSign(a) == IF a.n < 0 THEN -1 ELSE IF a.n > 0 THEN 1 ELSE 0

\* a speed-up or slow-down command or key
SpeedStep ==
    \/ SpeedUpCommandAt
    \/ SlowDownCommandAt
    \/ \E key \in {"+", "=", "-"} : SimulationKeyDownAt(key)

\* C30: after any sequence of set-speed, speed-up, slow-down and reverse
\* commands the magnitude of timeScale is within [0.1, 10], and a speed-up
\* or slow-down never changes the sign of timeScale
C30_SpeedPreservesDirection ==
    [][/\ RLeq(MinTimeScale, RMax(timeScale', RNeg(timeScale')))
       /\ RLeq(RMax(timeScale', RNeg(timeScale')), MaxTimeScale)
       /\ SpeedStep => RSign(timeScale') = RSign(timeScale)]_vars

============================================================================
